---- MODULE Spec2Model ----
(***************************************************************************)
(* Model of the Zigbee bootstrap / data-exchange callbacks of              *)
(* scratch/wifi-zigbee.cc (and of the join schedule of                     *)
(* scratch/wifi-zigbee-km.cc).  Time is counted in tenths of a second.     *)
(* The ns-3 Zigbee stack is external: it is modelled as an environment     *)
(* that turns requests into the callbacks the scripts registered.          *)
(* Devices are named by their index in the stack container (0 is the       *)
(* coordinator); Node::GetId() is that index plus the number of Wi-Fi      *)
(* nodes created before, the same offset wherever the code uses an id.     *)
(***************************************************************************)
EXTENDS Integers, Sequences, FiniteSets, TLC

(* ---------------------------- program constants ------------------------ *)
g_totalDevices == 5
c_zigbeeBufferSize == 64
HeaderSize == 16
HeartbeatInterval == 5
FormationTime == 10
FirstSendTime == 160
CoordExtPanId == 51966

\* NlmeNetworkDiscoveryRequestParams as main sets them: channels 11~14, duration 2
ChannelMask == 30720
ScanDuration == 2
\* and as the default constructor leaves them: ALL_CHANNELS, duration 0
DefaultChannelMask == 134215680
DefaultScanDuration == 0

KmZigbee == 5
KmStopTime == 300

(* ------------------------------- bounds -------------------------------- *)
\* simulationTime (command line, default 60 s) in tenths of a second
StopTime == 166
\* duplicate data indications the stack delivers in one run
MaxDups == 1
\* handler harness: successful join confirmations delivered
MaxJoinConfirms == 5
\* handler harness: join requests issued from discovery confirmations
MaxJoinRequests == 1
\* handler harness: data indications delivered
MaxIndications == 2
\* route inspector: devices in the topology
TrDeviceCount == 3

Nodes == 0 .. (g_totalDevices - 1)
Routers == 1 .. (g_totalDevices - 1)
Statuses == {"SUCCESS", "NOT_PERMITTED"}
LqiValues == {0, 255}
OtherExtPanId == CoordExtPanId + 1
\* what an out-of-range read of m_netDescList[0] may yield
GarbageExtPanIds == {0}
NetDescLists == {<<>>, <<CoordExtPanId>>, <<OtherExtPanId, CoordExtPanId>>}
\* the run has one coordinator: a scan finds its network or none
RunNetDescLists == {<<>>, <<CoordExtPanId>>}
DiscoveryTime(d) == 10 * (d + 2)
\* netDiscParams, netDiscParams2, netDiscParams3, netDiscParams4 as passed to the
\* four requests: the third block assigns netDiscParams2 again
DiscoveryParams(d) ==
    IF d = 3
    THEN [channelsField |-> DefaultChannelMask, scanDuration |-> DefaultScanDuration]
    ELSE [channelsField |-> ChannelMask, scanDuration |-> ScanDuration]
SendStart(d) == FirstSendTime + 2 * (d - 1)

VARIABLES
    g_joinedCount,    \* uint32 counter of successful join confirmations (no run
                      \* of bounded length brings a uint32 counter near 2^32)
    g_networkReady,   \* bool
    g_seqNo,          \* uint32 sequence counter shared by all pairs
    qosMap,           \* std::map node id -> QoSInfo
    receivedTracker,  \* std::map dest -> (std::map src -> std::set seq)
    accepted,         \* per (dest, src, seq): times recvPackets was incremented for it
    joinReqs,         \* per device: NlmeJoinRequests handed to the stack, not yet confirmed
    joinReqCount,     \* per device: NlmeJoinRequests issued so far
    startRouterReqs,  \* per device: NlmeStartRouterRequests issued so far
    dataReqs,         \* the NldeDataRequests issued, in order, with their packets
    events,           \* the simulator's event queue (events scheduled by the script)
    nextUid,          \* uid of the next scheduled event (FIFO tie-break)
    now,              \* Simulator::Now()
    aborted,          \* NS_ABORT_MSG was reached, or the process crashed
    pc,               \* main: "run" (in Simulator::Run), "stopped", "printed"
    report,           \* what PrintZigbeeQoS printed, per node id
    formed,           \* coordinator: "none", "pending", "ok", "failed"
    discPending,      \* devices with an outstanding NlmeNetworkDiscoveryRequest
    discOk,           \* per device: successful discovery confirmations delivered
    joinOk,           \* per device: successful join confirmations delivered
    joinFail,         \* per device: failed join confirmations delivered
    delivered,        \* indices of dataReqs that reached their destination
    dups,             \* data indications delivered again after the first
    indCount,         \* data indications delivered to NwkDataIndication
    shortInd,         \* of them, with a packet shorter than the header
    discArg,          \* <<m_netDescList>> of the latest successful discovery confirmation
    discReqs,         \* per device: parameters of the NlmeNetworkDiscoveryRequests issued
    logEnabled,       \* NS_LOG_DEBUG of ZigbeeRouting is compiled in and enabled
    nextHop,          \* route inspector: per device, FindRoute toward the destination
    trDst,            \* route inspector: the destination
    target,           \* route inspector: the device the walk is at
    count,            \* route inspector: the 1-based hop counter
    trPc              \* route inspector: "idle", "walk", "reached", "unreachable"

globals == <<g_joinedCount, g_networkReady, g_seqNo, qosMap, receivedTracker, accepted>>
requests == <<joinReqCount, startRouterReqs, dataReqs>>
sched == <<events, nextUid, now, pc, report>>
discConf == <<discOk, discArg>>
data == <<delivered, dups, indCount, shortInd>>
stack == <<formed, discPending, discConf, joinOk, joinFail, data>>
tracer == <<nextHop, trDst, target, count, trPc>>
rest == <<logEnabled, discReqs, tracer>>
vars == <<globals, joinReqs, requests, sched, stack, aborted, rest>>

(* ------------------------------ std::map ------------------------------- *)
EmptyMap == [k \in {} |-> 0]
Put(m, k, v) == [x \in (DOMAIN m) \cup {k} |-> IF x = k THEN v ELSE m[x]]
QoSInfo == [sentPackets |-> 0, recvPackets |-> 0, sumDelays |-> 0, sumLqi |-> 0]
\* operator[] : the entry, value-initialised when absent
QosAt(m, k) == IF k \in DOMAIN m THEN m[k] ELSE QoSInfo
SrcMapAt(t, d) == IF d \in DOMAIN t THEN t[d] ELSE EmptyMap
SeqSetAt(sm, s) == IF s \in DOMAIN sm THEN sm[s] ELSE {}
CountAt(m, k) == IF k \in DOMAIN m THEN m[k] ELSE 0

Timer(t, u, k, n, d) == [time |-> t, uid |-> u, kind |-> k, node |-> n, dst |-> d]
Payload(sz, s, q, t) == [size |-> sz, src |-> s, seq |-> q, sendTime |-> t]

(* ------------------------------ handlers ------------------------------- *)
\* logs the status, nothing else
NwkNetworkFormationConfirm(status) ==
    UNCHANGED <<globals, joinReqs, requests, aborted>>

NwkNetworkDiscoveryConfirm(d, status, netDescList) ==
    IF status = "SUCCESS"
    THEN IF Len(netDescList) > 0
         THEN /\ joinReqs' = [joinReqs EXCEPT ![d] = Append(@, netDescList[1])]
              /\ joinReqCount' = [joinReqCount EXCEPT ![d] = @ + 1]
              /\ UNCHANGED <<globals, startRouterReqs, dataReqs, aborted>>
         ELSE \* m_netDescList[0] of an empty vector: undefined behaviour
              \/ /\ aborted' = TRUE
                 /\ UNCHANGED <<globals, joinReqs, requests>>
              \/ \E g \in GarbageExtPanIds :
                 /\ joinReqs' = [joinReqs EXCEPT ![d] = Append(@, g)]
                 /\ joinReqCount' = [joinReqCount EXCEPT ![d] = @ + 1]
                 /\ UNCHANGED <<globals, startRouterReqs, dataReqs, aborted>>
    ELSE /\ aborted' = TRUE
         /\ UNCHANGED <<globals, joinReqs, requests>>

\* variants of NwkJoinConfirm with a slip in them
NwkJoinConfirm_Recompute(d, status) ==
    IF status = "SUCCESS"
    THEN /\ g_joinedCount' = g_joinedCount + 1
         /\ g_networkReady' = (g_joinedCount' = g_totalDevices - 1)
         /\ startRouterReqs' = [startRouterReqs EXCEPT ![d] = @ + 1]
         /\ UNCHANGED <<g_seqNo, qosMap, receivedTracker, accepted,
                        joinReqCount, dataReqs, aborted>>
    ELSE UNCHANGED <<globals, requests, aborted>>

NwkJoinConfirm_RouterAlways(d, status) ==
    /\ startRouterReqs' = [startRouterReqs EXCEPT ![d] = @ + 1]
    /\ IF status = "SUCCESS"
       THEN /\ g_joinedCount' = g_joinedCount + 1
            /\ g_networkReady' = IF g_joinedCount' = g_totalDevices - 1
                                 THEN TRUE ELSE g_networkReady
            /\ UNCHANGED <<g_seqNo, qosMap, receivedTracker, accepted,
                           joinReqCount, dataReqs, aborted>>
       ELSE UNCHANGED <<globals, joinReqCount, dataReqs, aborted>>

NwkJoinConfirm_AbortOnFail(d, status) ==
    IF status = "SUCCESS"
    THEN /\ g_joinedCount' = g_joinedCount + 1
         /\ g_networkReady' = IF g_joinedCount' = g_totalDevices - 1
                              THEN TRUE ELSE g_networkReady
         /\ startRouterReqs' = [startRouterReqs EXCEPT ![d] = @ + 1]
         /\ UNCHANGED <<g_seqNo, qosMap, receivedTracker, accepted,
                        joinReqCount, dataReqs, aborted>>
    ELSE /\ aborted' = TRUE
         /\ UNCHANGED <<globals, requests>>

\* readiness compared with the number of devices, coordinator included
NwkJoinConfirm_AllDevices(d, status) ==
    IF status = "SUCCESS"
    THEN /\ g_joinedCount' = g_joinedCount + 1
         /\ g_networkReady' = IF g_joinedCount' = g_totalDevices
                              THEN TRUE ELSE g_networkReady
         /\ startRouterReqs' = [startRouterReqs EXCEPT ![d] = @ + 1]
         /\ UNCHANGED <<g_seqNo, qosMap, receivedTracker, accepted,
                        joinReqCount, dataReqs, aborted>>
    ELSE UNCHANGED <<globals, requests, aborted>>

NwkJoinConfirm(d, status) ==
    IF status = "SUCCESS"
    THEN /\ g_joinedCount' = g_joinedCount + 1
         /\ g_networkReady' = IF g_joinedCount' = g_totalDevices - 1
                              THEN TRUE ELSE g_networkReady
         /\ startRouterReqs' = [startRouterReqs EXCEPT ![d] = @ + 1]
         /\ UNCHANGED <<g_seqNo, qosMap, receivedTracker, accepted,
                        joinReqCount, dataReqs, aborted>>
    ELSE UNCHANGED <<globals, requests, aborted>>

\* variants of SendDataPeriod with a slip in them
SendDataPeriod_SeqAfter(src, dst, interval, q) ==
    IF ~g_networkReady
    THEN /\ events' = q
         /\ UNCHANGED <<globals, joinReqs, requests, nextUid, aborted>>
    ELSE LET sent == [QosAt(qosMap, dst) EXCEPT !.sentPackets = @ + 1]
             m1 == Put(qosMap, dst, sent)
         IN /\ g_seqNo' = g_seqNo + 1
            /\ qosMap' = IF logEnabled THEN Put(m1, src, QosAt(m1, src)) ELSE m1
            /\ dataReqs' = Append(dataReqs,
                   [src |-> src, dst |-> dst,
                    p |-> Payload(c_zigbeeBufferSize, src, g_seqNo', now')])
            /\ events' = q \cup {Timer(now' + interval, nextUid, "SendDataPeriod", src, dst)}
            /\ nextUid' = nextUid + 1
            /\ UNCHANGED <<g_joinedCount, g_networkReady, receivedTracker, accepted,
                           joinReqs, joinReqCount, startRouterReqs, aborted>>

SendDataPeriod_NoGate(src, dst, interval, q) ==
    LET sent == [QosAt(qosMap, dst) EXCEPT !.sentPackets = @ + 1]
        m1 == Put(qosMap, dst, sent)
    IN /\ g_seqNo' = g_seqNo + 1
       /\ qosMap' = IF logEnabled THEN Put(m1, src, QosAt(m1, src)) ELSE m1
       /\ dataReqs' = Append(dataReqs,
              [src |-> src, dst |-> dst,
               p |-> Payload(c_zigbeeBufferSize, src, g_seqNo, now')])
       /\ events' = q \cup {Timer(now' + interval, nextUid, "SendDataPeriod", src, dst)}
       /\ nextUid' = nextUid + 1
       /\ UNCHANGED <<g_joinedCount, g_networkReady, receivedTracker, accepted,
                      joinReqs, joinReqCount, startRouterReqs, aborted>>

\* sentPackets counted for the source as well as for the destination
SendDataPeriod_CountSource(src, dst, interval, q) ==
    IF ~g_networkReady
    THEN /\ events' = q
         /\ UNCHANGED <<globals, joinReqs, requests, nextUid, aborted>>
    ELSE LET sent == [QosAt(qosMap, dst) EXCEPT !.sentPackets = @ + 1]
             m1 == Put(qosMap, dst, sent)
         IN /\ g_seqNo' = g_seqNo + 1
            /\ qosMap' = Put(m1, src, [QosAt(m1, src) EXCEPT !.sentPackets = @ + 1])
            /\ dataReqs' = Append(dataReqs,
                   [src |-> src, dst |-> dst,
                    p |-> Payload(c_zigbeeBufferSize, src, g_seqNo, now')])
            /\ events' = q \cup {Timer(now' + interval, nextUid, "SendDataPeriod", src, dst)}
            /\ nextUid' = nextUid + 1
            /\ UNCHANGED <<g_joinedCount, g_networkReady, receivedTracker, accepted,
                           joinReqs, joinReqCount, startRouterReqs, aborted>>

\* q is the event queue the handler schedules into
SendDataPeriod(src, dst, interval, q) ==
    IF ~g_networkReady
    THEN /\ events' = q
         /\ UNCHANGED <<globals, joinReqs, requests, nextUid, aborted>>
    ELSE IF c_zigbeeBufferSize < HeaderSize
    THEN /\ aborted' = TRUE
         /\ events' = q
         /\ UNCHANGED <<globals, joinReqs, requests, nextUid>>
    ELSE LET sent == [QosAt(qosMap, dst) EXCEPT !.sentPackets = @ + 1]
             m1 == Put(qosMap, dst, sent)
         IN /\ g_seqNo' = g_seqNo + 1
            /\ qosMap' = IF logEnabled THEN Put(m1, src, QosAt(m1, src)) ELSE m1
            /\ dataReqs' = Append(dataReqs,
                   [src |-> src, dst |-> dst,
                    p |-> Payload(c_zigbeeBufferSize, src, g_seqNo, now')])
            /\ events' = q \cup {Timer(now' + interval, nextUid, "SendDataPeriod", src, dst)}
            /\ nextUid' = nextUid + 1
            /\ UNCHANGED <<g_joinedCount, g_networkReady, receivedTracker, accepted,
                           joinReqs, joinReqCount, startRouterReqs, aborted>>

\* NwkDataIndication without the size check: the header is read regardless
NwkDataIndication_NoSizeCheck(d, p, lqi) ==
    LET srcMap == SrcMapAt(receivedTracker, d)
        seqSet == SeqSetAt(srcMap, p.src)
        triple == <<d, p.src, p.seq>>
        info == QosAt(qosMap, d)
    IN IF p.seq \in seqSet
       THEN UNCHANGED <<globals, joinReqs, requests, aborted>>
       ELSE /\ receivedTracker' =
                 Put(receivedTracker, d, Put(srcMap, p.src, seqSet \cup {p.seq}))
            /\ qosMap' = Put(qosMap, d,
                 [info EXCEPT !.recvPackets = @ + 1,
                              !.sumDelays = @ + (now' - p.sendTime),
                              !.sumLqi = @ + lqi])
            /\ accepted' = Put(accepted, triple, CountAt(accepted, triple) + 1)
            /\ UNCHANGED <<g_joinedCount, g_networkReady, g_seqNo, joinReqs,
                           requests, aborted>>

\* NwkDataIndication without seqSet.insert
NwkDataIndication_NoInsert(d, p, lqi) ==
    IF p.size < HeaderSize
    THEN UNCHANGED <<globals, joinReqs, requests, aborted>>
    ELSE LET srcMap == SrcMapAt(receivedTracker, d)
             seqSet == SeqSetAt(srcMap, p.src)
             triple == <<d, p.src, p.seq>>
             info == QosAt(qosMap, d)
         IN IF p.seq \in seqSet
            THEN UNCHANGED <<globals, joinReqs, requests, aborted>>
            ELSE /\ receivedTracker' = Put(receivedTracker, d, Put(srcMap, p.src, seqSet))
                 /\ qosMap' = Put(qosMap, d,
                      [info EXCEPT !.recvPackets = @ + 1,
                                   !.sumDelays = @ + (now' - p.sendTime),
                                   !.sumLqi = @ + lqi])
                 /\ accepted' = Put(accepted, triple, CountAt(accepted, triple) + 1)
                 /\ UNCHANGED <<g_joinedCount, g_networkReady, g_seqNo, joinReqs,
                                requests, aborted>>

\* NwkDataIndication without the duplicate check
NwkDataIndication_NoDedup(d, p, lqi) ==
    IF p.size < HeaderSize
    THEN UNCHANGED <<globals, joinReqs, requests, aborted>>
    ELSE LET srcMap == SrcMapAt(receivedTracker, d)
             seqSet == SeqSetAt(srcMap, p.src)
             triple == <<d, p.src, p.seq>>
             info == QosAt(qosMap, d)
         IN /\ receivedTracker' =
                 Put(receivedTracker, d, Put(srcMap, p.src, seqSet \cup {p.seq}))
            /\ qosMap' = Put(qosMap, d,
                 [info EXCEPT !.recvPackets = @ + 1,
                              !.sumDelays = @ + (now' - p.sendTime),
                              !.sumLqi = @ + lqi])
            /\ accepted' = Put(accepted, triple, CountAt(accepted, triple) + 1)
            /\ UNCHANGED <<g_joinedCount, g_networkReady, g_seqNo, joinReqs,
                           requests, aborted>>

NwkDataIndication(d, p, lqi) ==
    IF p.size < HeaderSize
    THEN UNCHANGED <<globals, joinReqs, requests, aborted>>
    ELSE LET srcMap == SrcMapAt(receivedTracker, d)
             seqSet == SeqSetAt(srcMap, p.src)
             triple == <<d, p.src, p.seq>>
             info == QosAt(qosMap, d)
         IN IF p.seq \in seqSet
            THEN UNCHANGED <<globals, joinReqs, requests, aborted>>
            ELSE /\ receivedTracker' =
                      Put(receivedTracker, d, Put(srcMap, p.src, seqSet \cup {p.seq}))
                 /\ qosMap' = Put(qosMap, d,
                      [info EXCEPT !.recvPackets = @ + 1,
                                   !.sumDelays = @ + (now' - p.sendTime),
                                   !.sumLqi = @ + lqi])
                 /\ accepted' = Put(accepted, triple, CountAt(accepted, triple) + 1)
                 /\ UNCHANGED <<g_joinedCount, g_networkReady, g_seqNo, joinReqs,
                                requests, aborted>>

\* the PDR column computed with the division unguarded
Pdr_Unguarded(info) ==
    [num |-> info.recvPackets, den |-> info.sentPackets, divided |-> TRUE]

\* the PDR column of one table row: recv/sent, or 0 with no division
Pdr(info) ==
    IF info.sentPackets > 0
    THEN [num |-> info.recvPackets, den |-> info.sentPackets, divided |-> TRUE]
    ELSE [num |-> 0, den |-> 1, divided |-> FALSE]

PrintZigbeeQoS == [nid \in DOMAIN qosMap |-> Pdr(qosMap[nid])]

(* ----------------------- the run of wifi-zigbee.cc --------------------- *)
InitGlobals ==
    /\ g_joinedCount = 0
    /\ g_networkReady = FALSE
    /\ g_seqNo = 0
    /\ qosMap = EmptyMap
    /\ receivedTracker = EmptyMap
    /\ accepted = EmptyMap

\* the scripts of this model never start a route trace
InitTracer ==
    /\ nextHop = <<>>
    /\ trDst = 0
    /\ target = 0
    /\ count = 1
    /\ trPc = "idle"

InitStack(devs) ==
    /\ joinReqs = [d \in devs |-> <<>>]
    /\ joinReqCount = [d \in devs |-> 0]
    /\ startRouterReqs = [d \in devs |-> 0]
    /\ dataReqs = <<>>
    /\ formed = "none"
    /\ discPending = {}
    /\ discOk = [d \in devs |-> 0]
    /\ joinOk = [d \in devs |-> 0]
    /\ joinFail = [d \in devs |-> 0]
    /\ delivered = {}
    /\ dups = 0
    /\ indCount = 0
    /\ shortInd = 0
    /\ discArg = <<>>
    /\ discReqs = [d \in devs |-> <<>>]
    /\ now = 0
    /\ aborted = FALSE
    /\ pc = "run"
    /\ report = EmptyMap

Init ==
    /\ InitGlobals
    /\ InitStack(Routers)
    /\ InitTracer
    /\ events = {Timer(FormationTime, 0, "NlmeNetworkFormationRequest", 0, 0)}
                \cup {Timer(DiscoveryTime(d), d, "NlmeNetworkDiscoveryRequest", d, d) : d \in Routers}
                \cup {Timer(SendStart(d), g_totalDevices + d - 1, "SendDataPeriod", 0, d) : d \in Routers}
                \cup {Timer(StopTime, 2 * g_totalDevices - 1, "Stop", 0, 0)}
    /\ nextUid = 2 * g_totalDevices
    /\ logEnabled \in BOOLEAN

Running == ~aborted /\ pc = "run"

\* Simulator::Run: the earliest event, FIFO among equal times
IsNext(e) == /\ e \in events
             /\ \A f \in events : e.time < f.time \/ (e.time = f.time /\ e.uid <= f.uid)

RunFormationRequest ==
    \E e \in events :
    /\ Running /\ IsNext(e) /\ e.kind = "NlmeNetworkFormationRequest"
    /\ now' = e.time
    /\ events' = events \ {e}
    /\ formed' = "pending"
    /\ UNCHANGED <<globals, joinReqs, requests, nextUid, pc, report, discPending, discConf,
                   joinOk, joinFail, data, aborted, rest>>

RunDiscoveryRequest ==
    \E e \in events :
    /\ Running /\ IsNext(e) /\ e.kind = "NlmeNetworkDiscoveryRequest"
    /\ now' = e.time
    /\ events' = events \ {e}
    /\ discPending' = discPending \cup {e.node}
    /\ discReqs' = [discReqs EXCEPT ![e.node] =
                       Append(@, [time |-> e.time, params |-> DiscoveryParams(e.node)])]
    /\ UNCHANGED <<globals, joinReqs, requests, nextUid, pc, report, formed, discConf,
                   joinOk, joinFail, data, aborted, logEnabled, tracer>>

RunSendDataPeriod ==
    \E e \in events :
    /\ Running /\ IsNext(e) /\ e.kind = "SendDataPeriod"
    /\ now' = e.time
    /\ SendDataPeriod(e.node, e.dst, HeartbeatInterval, events \ {e})
    /\ UNCHANGED <<pc, report, stack, rest>>

RunStop ==
    \E e \in events :
    /\ Running /\ IsNext(e) /\ e.kind = "Stop"
    /\ now' = e.time
    /\ events' = events \ {e}
    /\ pc' = "stopped"
    /\ UNCHANGED <<globals, joinReqs, requests, nextUid, report, stack, aborted, rest>>

\* main, after Simulator::Run returned
MainPrintZigbeeQoS ==
    /\ pc = "stopped" /\ ~aborted
    /\ report' = PrintZigbeeQoS
    /\ pc' = "printed"
    /\ UNCHANGED <<globals, joinReqs, requests, events, nextUid, now, stack, aborted, rest>>

StackFormationConfirm ==
    \E status \in Statuses :
    /\ Running /\ formed = "pending"
    /\ formed' = IF status = "SUCCESS" THEN "ok" ELSE "failed"
    /\ NwkNetworkFormationConfirm(status)
    /\ UNCHANGED <<sched, discPending, discConf, joinOk, joinFail, data,
                   rest>>

StackDiscoveryConfirm ==
    \E d \in discPending, status \in Statuses, nets \in RunNetDescLists :
    /\ Running
    /\ discPending' = discPending \ {d}
    /\ discOk' = IF status = "SUCCESS" THEN [discOk EXCEPT ![d] = @ + 1] ELSE discOk
    /\ discArg' = IF status = "SUCCESS" THEN <<nets>> ELSE discArg
    /\ NwkNetworkDiscoveryConfirm(d, status, nets)
    /\ UNCHANGED <<sched, formed, joinOk, joinFail, data, rest>>

\* the stack answers the oldest outstanding join request of a device
StackJoinConfirm ==
    \E d \in Routers, status \in Statuses :
    /\ Running
    /\ Len(joinReqs[d]) > 0
    /\ joinOk' = IF status = "SUCCESS" THEN [joinOk EXCEPT ![d] = @ + 1] ELSE joinOk
    /\ joinFail' = IF status = "SUCCESS" THEN joinFail ELSE [joinFail EXCEPT ![d] = @ + 1]
    /\ joinReqs' = [joinReqs EXCEPT ![d] = Tail(@)]
    /\ NwkJoinConfirm(d, status)
    /\ UNCHANGED <<sched, formed, discPending, discConf, data, rest>>

\* the stack hands a packet of an NldeDataRequest to its destination, once or again
StackDataIndication ==
    \E i \in 1 .. Len(dataReqs), lqi \in LqiValues :
    /\ Running
    /\ i \in delivered => dups < MaxDups
    /\ delivered' = delivered \cup {i}
    /\ dups' = IF i \in delivered THEN dups + 1 ELSE dups
    /\ indCount' = indCount + 1
    /\ shortInd' = IF dataReqs[i].p.size < HeaderSize THEN shortInd + 1 ELSE shortInd
    /\ now' = now
    /\ NwkDataIndication(dataReqs[i].dst, dataReqs[i].p, lqi)
    /\ UNCHANGED <<events, nextUid, pc, report, formed, discPending, discConf,
                   joinOk, joinFail, rest>>

Next ==
    \/ RunFormationRequest
    \/ RunDiscoveryRequest
    \/ RunSendDataPeriod
    \/ RunStop
    \/ MainPrintZigbeeQoS
    \/ StackFormationConfirm
    \/ StackDiscoveryConfirm
    \/ StackJoinConfirm
    \/ StackDataIndication

Spec == Init /\ [][Next]_vars

(* ------------- the run of wifi-zigbee.cc, every request granted --------- *)
\* The stack answers SUCCESS to the formation request, to every discovery
\* request (with the coordinator's network in the list) and to every join
\* request, and it answers before the simulation reaches its stop time.
\* Simulator::Run keeps executing events while there are any.
NoPendingRequest ==
    /\ formed # "pending"
    /\ discPending = {}
    /\ \A d \in Routers : joinReqs[d] = <<>>

OkFormationConfirm ==
    /\ Running /\ formed = "pending"
    /\ formed' = "ok"
    /\ NwkNetworkFormationConfirm("SUCCESS")
    /\ UNCHANGED <<sched, discPending, discConf, joinOk, joinFail, data, rest>>

OkDiscoveryConfirm ==
    \E d \in discPending :
    /\ Running
    /\ discPending' = discPending \ {d}
    /\ discOk' = [discOk EXCEPT ![d] = @ + 1]
    /\ discArg' = <<<<CoordExtPanId>>>>
    /\ NwkNetworkDiscoveryConfirm(d, "SUCCESS", <<CoordExtPanId>>)
    /\ UNCHANGED <<sched, formed, joinOk, joinFail, data, rest>>

OkJoinConfirm ==
    \E d \in Routers :
    /\ Running
    /\ Len(joinReqs[d]) > 0
    /\ joinOk' = [joinOk EXCEPT ![d] = @ + 1]
    /\ joinReqs' = [joinReqs EXCEPT ![d] = Tail(@)]
    /\ NwkJoinConfirm(d, "SUCCESS")
    /\ UNCHANGED <<sched, formed, discPending, discConf, joinFail, data, rest>>

RunStopAnswered ==
    /\ NoPendingRequest
    /\ RunStop

NextLive ==
    \/ RunFormationRequest
    \/ RunDiscoveryRequest
    \/ RunSendDataPeriod
    \/ RunStopAnswered
    \/ MainPrintZigbeeQoS
    \/ OkFormationConfirm
    \/ OkDiscoveryConfirm
    \/ OkJoinConfirm
    \/ StackDataIndication

SpecLive == Init /\ [][NextLive]_vars /\ WF_vars(NextLive)

(* ------------------- the callbacks, invoked by any stack ---------------- *)
\* The join-side callbacks take whatever confirmations a stack delivers:
\* any device, any status, any number of times.
InitJoin ==
    /\ InitGlobals
    /\ InitStack(Routers)
    /\ InitTracer
    /\ events = {}
    /\ nextUid = 0
    /\ logEnabled = FALSE

Sum4(f) == f[1] + f[2] + f[3] + f[4]

HFormationConfirm ==
    \E status \in Statuses :
    /\ ~aborted /\ formed \in {"none", "pending"}
    /\ formed' = IF status = "SUCCESS" THEN "ok" ELSE "failed"
    /\ NwkNetworkFormationConfirm(status)
    /\ UNCHANGED <<sched, discPending, discConf, joinOk, joinFail, data, rest>>

HDiscoveryConfirm ==
    \E d \in Routers, status \in Statuses, nets \in NetDescLists :
    /\ ~aborted
    /\ Sum4(joinReqCount) < MaxJoinRequests
    /\ discOk' = IF status = "SUCCESS" THEN [discOk EXCEPT ![d] = @ + 1] ELSE discOk
    /\ discArg' = IF status = "SUCCESS" THEN <<nets>> ELSE discArg
    /\ NwkNetworkDiscoveryConfirm(d, status, nets)
    /\ UNCHANGED <<sched, formed, discPending, joinOk, joinFail, data, rest>>

HJoinConfirm ==
    \E d \in Routers, status \in Statuses :
    /\ ~aborted
    /\ Sum4(joinOk) + Sum4(joinFail) < MaxJoinConfirms
    /\ joinOk' = IF status = "SUCCESS" THEN [joinOk EXCEPT ![d] = @ + 1] ELSE joinOk
    /\ joinFail' = IF status = "SUCCESS" THEN joinFail ELSE [joinFail EXCEPT ![d] = @ + 1]
    /\ joinReqs' = joinReqs
    /\ NwkJoinConfirm(d, status)
    /\ UNCHANGED <<sched, formed, discPending, discConf, data, rest>>

NextJoin ==
    \/ HFormationConfirm
    \/ HDiscoveryConfirm
    \/ HJoinConfirm

SpecJoin == InitJoin /\ [][NextJoin]_vars

(* ---------------- the data callbacks, invoked by any stack -------------- *)
\* After a bootstrap in which every device joined, the periodic sends run as
\* scheduled and NwkDataIndication takes whatever packets a stack delivers:
\* any destination, any header content, any size.
IndDests == {1, 2}
IndSources == {0, 1}
IndSeqs == {0, 1}
\* origination times read from a header: before the first send, after the stop
IndSendTimes == {FirstSendTime - 10, StopTime + 10}
ShortSize == HeaderSize - 6
IndPackets == {Payload(ShortSize, 0, 0, 0)}
              \cup {Payload(c_zigbeeBufferSize, s, q, t) :
                       s \in IndSources, q \in IndSeqs, t \in IndSendTimes}

InitData ==
    /\ g_joinedCount = g_totalDevices - 1
    /\ g_networkReady = TRUE
    /\ g_seqNo = 0
    /\ qosMap = EmptyMap
    /\ receivedTracker = EmptyMap
    /\ accepted = EmptyMap
    /\ joinReqs = [d \in Routers |-> <<>>]
    /\ joinReqCount = [d \in Routers |-> 1]
    /\ startRouterReqs = [d \in Routers |-> 1]
    /\ dataReqs = <<>>
    /\ formed = "ok"
    /\ discPending = {}
    /\ discOk = [d \in Routers |-> 1]
    /\ discArg = <<<<CoordExtPanId>>>>
    /\ discReqs = [d \in Routers |->
                     <<[time |-> DiscoveryTime(d), params |-> DiscoveryParams(d)]>>]
    /\ joinOk = [d \in Routers |-> 1]
    /\ joinFail = [d \in Routers |-> 0]
    /\ delivered = {}
    /\ dups = 0
    /\ indCount = 0
    /\ shortInd = 0
    /\ events = {Timer(SendStart(d), g_totalDevices + d - 1, "SendDataPeriod", 0, d) : d \in Routers}
                \cup {Timer(StopTime, 2 * g_totalDevices - 1, "Stop", 0, 0)}
    /\ nextUid = 2 * g_totalDevices
    /\ now = DiscoveryTime(g_totalDevices - 1)
    /\ aborted = FALSE
    /\ pc = "run"
    /\ report = EmptyMap
    /\ logEnabled \in BOOLEAN
    /\ InitTracer

HDataIndication ==
    \E d \in IndDests, p \in IndPackets, lqi \in LqiValues :
    /\ Running
    /\ indCount < MaxIndications
    /\ indCount' = indCount + 1
    /\ shortInd' = IF p.size < HeaderSize THEN shortInd + 1 ELSE shortInd
    /\ dups' = IF /\ p.size >= HeaderSize
                  /\ p.seq \in SeqSetAt(SrcMapAt(receivedTracker, d), p.src)
               THEN dups + 1 ELSE dups
    /\ now' = now
    /\ NwkDataIndication(d, p, lqi)
    /\ UNCHANGED <<events, nextUid, pc, report, formed, discPending, discConf,
                   joinOk, joinFail, delivered, rest>>

NextData ==
    \/ RunSendDataPeriod
    \/ RunStop
    \/ MainPrintZigbeeQoS
    \/ HDataIndication

SpecData == InitData /\ [][NextData]_vars

(* --------------------- the run of wifi-zigbee-km.cc -------------------- *)
\* No confirmation callback is registered: the stack's answers reach no handler.
KmRouters == 1 .. (KmZigbee - 1)

InitKm ==
    /\ InitGlobals
    /\ InitStack(KmRouters)
    /\ InitTracer
    /\ events = {Timer(0, 0, "NlmeNetworkFormationRequest", 0, 0)}
                \cup {Timer(HeartbeatInterval * i, i, "NlmeJoinRequest", i, i) : i \in KmRouters}
                \cup {Timer(KmStopTime, KmZigbee, "Stop", 0, 0)}
    /\ nextUid = KmZigbee + 1
    /\ logEnabled = FALSE

KmRunFormationRequest ==
    \E e \in events :
    /\ Running /\ IsNext(e) /\ e.kind = "NlmeNetworkFormationRequest"
    /\ now' = e.time
    /\ events' = events \ {e}
    /\ formed' = "pending"
    /\ UNCHANGED <<globals, joinReqs, requests, nextUid, pc, report, discPending, discConf,
                   joinOk, joinFail, data, aborted, rest>>

KmRunJoinRequest ==
    \E e \in events :
    /\ Running /\ IsNext(e) /\ e.kind = "NlmeJoinRequest"
    /\ now' = e.time
    /\ events' = events \ {e}
    /\ joinReqs' = [joinReqs EXCEPT ![e.node] = Append(@, 0)]
    /\ joinReqCount' = [joinReqCount EXCEPT ![e.node] = @ + 1]
    /\ UNCHANGED <<globals, startRouterReqs, dataReqs, nextUid, pc, report, stack,
                   aborted, rest>>

KmRunStop ==
    \E e \in events :
    /\ Running /\ IsNext(e) /\ e.kind = "Stop"
    /\ now' = e.time
    /\ events' = events \ {e}
    /\ pc' = "stopped"
    /\ UNCHANGED <<globals, joinReqs, requests, nextUid, report, stack, aborted, rest>>

KmStackFormationConfirm ==
    \E status \in Statuses :
    /\ Running /\ formed = "pending"
    /\ formed' = IF status = "SUCCESS" THEN "ok" ELSE "failed"
    /\ UNCHANGED <<globals, joinReqs, requests, sched, discPending, discConf, joinOk,
                   joinFail, data, aborted, rest>>

KmStackJoinConfirm ==
    \E d \in KmRouters, status \in Statuses :
    /\ Running
    /\ Len(joinReqs[d]) > 0
    /\ joinReqs' = [joinReqs EXCEPT ![d] = Tail(@)]
    /\ joinOk' = IF status = "SUCCESS" THEN [joinOk EXCEPT ![d] = @ + 1] ELSE joinOk
    /\ joinFail' = IF status = "SUCCESS" THEN joinFail ELSE [joinFail EXCEPT ![d] = @ + 1]
    /\ UNCHANGED <<globals, requests, sched, formed, discPending, discConf, data,
                   aborted, rest>>

NextKm ==
    \/ KmRunFormationRequest
    \/ KmRunJoinRequest
    \/ KmRunStop
    \/ KmStackFormationConfirm
    \/ KmStackJoinConfirm

SpecKm == InitKm /\ [][NextKm]_vars

(* ---------------------------- route inspector -------------------------- *)
\* TraceRoute(src, dst) walks the next hops toward dst: it stops when the walk
\* is at dst, or when FindRoute answers the no-route address; each hop adds 1
\* to the hop counter, which is used for display only.
TrNodes == 0 .. (TrDeviceCount - 1)
\* Mac16Address("FF:FF")
NoRoute == 65535
\* hops the model follows a walk for
MaxTraceHops == TrDeviceCount + 3

InitTrace ==
    /\ InitGlobals
    /\ InitStack(Routers)
    /\ events = {}
    /\ nextUid = 0
    /\ logEnabled = FALSE
    /\ nextHop \in [TrNodes -> TrNodes \cup {NoRoute}]
    /\ trDst = 0
    /\ target = 0
    /\ count = 1
    /\ trPc = "idle"

TraceRoute ==
    \E src \in TrNodes, dst \in TrNodes :
    /\ trPc = "idle"
    /\ target' = src
    /\ trDst' = dst
    /\ count' = 1
    /\ trPc' = "walk"
    /\ UNCHANGED <<globals, joinReqs, requests, sched, stack, aborted,
                   logEnabled, discReqs, nextHop>>

TraceReached ==
    /\ trPc = "walk" /\ target = trDst
    /\ trPc' = "reached"
    /\ UNCHANGED <<globals, joinReqs, requests, sched, stack, aborted,
                   logEnabled, discReqs, nextHop, trDst, target, count>>

TraceUnreachable ==
    /\ trPc = "walk" /\ target # trDst
    /\ nextHop[target] = NoRoute
    /\ target' = NoRoute
    /\ trPc' = "unreachable"
    /\ UNCHANGED <<globals, joinReqs, requests, sched, stack, aborted,
                   logEnabled, discReqs, nextHop, trDst, count>>

TraceHop ==
    /\ trPc = "walk" /\ target # trDst
    /\ nextHop[target] # NoRoute
    /\ count < MaxTraceHops
    /\ target' = nextHop[target]
    /\ count' = count + 1
    /\ UNCHANGED <<globals, joinReqs, requests, sched, stack, aborted,
                   logEnabled, discReqs, nextHop, trDst, trPc>>

NextTrace ==
    \/ TraceRoute
    \/ TraceReached
    \/ TraceUnreachable
    \/ TraceHop

SpecTrace == InitTrace /\ [][NextTrace]_vars

(* ================================ claims =============================== *)
SendTimers == {e \in events : e.kind = "SendDataPeriod"}
\* the triples the stack has handed to destination d
DeliveredTo(d) == {<<dataReqs[i].p.src, dataReqs[i].p.seq>> :
                      i \in {j \in delivered : dataReqs[j].dst = d}}
QosChanged(d) ==
    \/ QosAt(qosMap', d).recvPackets # QosAt(qosMap, d).recvPackets
    \/ QosAt(qosMap', d).sumDelays # QosAt(qosMap, d).sumDelays
    \/ QosAt(qosMap', d).sumLqi # QosAt(qosMap, d).sumLqi

\* a step changes a destination's receive counters only by accepting a new triple
C1_FirstAcceptOnly ==
    \A d \in Nodes : QosChanged(d) =>
        \E t \in DOMAIN accepted' :
            t[1] = d /\ t \notin DOMAIN accepted /\ accepted'[t] = 1
\* C1: recvPackets of a destination is incremented at most once per
\* (destination, source, sequence number): it equals the number of distinct
\* triples delivered there, and recvPackets, sumDelays and sumLqi change only
\* in a step that accepts a triple for the first time.
C1_AtMostOnceDelivery ==
    /\ [](/\ \A t \in DOMAIN accepted : accepted[t] <= 1
          /\ \A d \in Nodes :
                QosAt(qosMap, d).recvPackets = Cardinality(DeliveredTo(d)))
    /\ [][C1_FirstAcceptOnly]_vars
\* a packet was handed to its destination twice and counted
C1_Witness ==
    /\ dups >= 1
    /\ \E d \in Routers : QosAt(qosMap, d).recvPackets >= 1

\* C2: g_networkReady starts false and never goes from true to false,
\* whatever join confirmations arrive.
C2_ReadinessMonotonic ==
    /\ g_networkReady = FALSE
    /\ [][g_networkReady => g_networkReady']_vars
\* more successful confirmations than g_totalDevices - 1 were delivered
C2_Witness ==
    /\ g_networkReady
    /\ g_joinedCount > g_totalDevices - 1

\* C3: the n-th packet handed to NldeDataRequest carries sequence number n-1.
C3_MonotonicSeq ==
    \A i \in 1 .. Len(dataReqs) : dataReqs[i].p.seq = i - 1
\* all four pairs have sent, one of them twice
C3_Witness ==
    /\ Len(dataReqs) >= g_totalDevices
    /\ {dataReqs[i].dst : i \in 1 .. Len(dataReqs)} = Routers

\* C4: recvPackets <= sentPackets for every qosMap entry, and the PDR that
\* PrintZigbeeQoS prints is recv/sent in [0, 1], or 0 with no division when
\* sentPackets is 0.
C4_PdrBounds ==
    /\ \A nid \in DOMAIN qosMap : qosMap[nid].recvPackets <= qosMap[nid].sentPackets
    /\ pc = "printed" =>
         /\ DOMAIN report = DOMAIN qosMap
         /\ \A nid \in DOMAIN report :
              /\ report[nid].den > 0
              /\ 0 <= report[nid].num /\ report[nid].num <= report[nid].den
              /\ qosMap[nid].sentPackets = 0 =>
                   ~report[nid].divided /\ report[nid].num = 0
              /\ qosMap[nid].sentPackets > 0 =>
                   /\ report[nid].num = qosMap[nid].recvPackets
                   /\ report[nid].den = qosMap[nid].sentPackets
\* the table has a row with nothing sent and a row with everything received
C4_Witness ==
    /\ pc = "printed"
    /\ \E nid \in DOMAIN report : qosMap[nid].sentPackets = 0
    /\ \E nid \in DOMAIN report :
          qosMap[nid].sentPackets > 1 /\ report[nid].num = report[nid].den

\* a SendDataPeriod event that runs while the network is not ready
C5_NotReadyIsNoOp ==
    \A e \in SendTimers : (e \notin events' /\ ~g_networkReady) =>
        /\ g_seqNo' = g_seqNo
        /\ qosMap' = qosMap
        /\ dataReqs' = dataReqs
\* C5: SendDataPeriod invoked while g_networkReady is false changes neither
\* g_seqNo nor qosMap and issues no NldeDataRequest; nothing is sent before
\* g_networkReady is true.
C5_ReadinessGating ==
    /\ [](~g_networkReady =>
            /\ g_seqNo = 0
            /\ dataReqs = <<>>
            /\ \A nid \in DOMAIN qosMap : qosMap[nid].sentPackets = 0)
    /\ [][C5_NotReadyIsNoOp]_vars
\* SendDataPeriod ran for pair (0, 1) before the network was ready
C5_Witness ==
    /\ ~g_networkReady
    /\ now >= FirstSendTime
    /\ \A e \in SendTimers : e.dst # 1

\* C6: every invocation of SendDataPeriod for a pair is followed by another
\* one, interval seconds later.
C6_PeriodicContinuation ==
    [][\A e \in SendTimers : (e \notin events' /\ ~aborted') =>
          \E f \in events' :
              /\ f.kind = "SendDataPeriod"
              /\ f.node = e.node /\ f.dst = e.dst
              /\ f.time = e.time + HeartbeatInterval]_vars

\* C7: a device has issued a join request only after a successful
\* network-discovery confirmation of its own.
C7_JoinOnlyAfterDiscovery ==
    \A d \in DOMAIN joinReqCount : joinReqCount[d] > 0 => discOk[d] > 0

\* the step in which a successful join confirmation reaches device d
C8_OnSuccess ==
    \A d \in Routers : joinOk'[d] = joinOk[d] + 1 =>
        /\ g_joinedCount' = g_joinedCount + 1
        /\ g_joinedCount' = g_totalDevices - 1 => g_networkReady'
        /\ g_joinedCount' # g_totalDevices - 1 => g_networkReady' = g_networkReady
        /\ startRouterReqs' = [startRouterReqs EXCEPT ![d] = @ + 1]
\* C8: a successful NwkJoinConfirm adds exactly 1 to g_joinedCount, sets
\* g_networkReady exactly when the counter reaches g_totalDevices - 1, and
\* issues exactly one NlmeStartRouterRequest on the confirming device; no
\* device gets a StartRouter request without a successful join confirmation.
C8_JoinSuccessHandling ==
    /\ [](\A d \in Routers : startRouterReqs[d] = joinOk[d])
    /\ [][C8_OnSuccess]_vars
\* the confirmation that made the network ready, and one after it
C8_Witness ==
    /\ g_joinedCount = g_totalDevices
    /\ g_networkReady
    /\ \A d \in Routers : startRouterReqs[d] >= 1

\* the step in which a failed join confirmation reaches device d
C9_OnFailure ==
    \A d \in Routers : joinFail'[d] = joinFail[d] + 1 =>
        /\ g_joinedCount' = g_joinedCount
        /\ g_networkReady' = g_networkReady
        /\ startRouterReqs' = startRouterReqs
        /\ joinReqCount' = joinReqCount
        /\ discPending' = discPending
        /\ events' = events
        /\ aborted' = aborted /\ pc' = pc
        /\ \A o \in Routers \ {d} : joinReqs'[o] = joinReqs[o]
\* C9: a failed NwkJoinConfirm changes neither g_joinedCount nor
\* g_networkReady, issues no StartRouter, discovery or join request, and does
\* not end the run; the other devices are not affected.
C9_JoinFailureHandling == [][C9_OnFailure]_vars
\* one device failed to join, the three others joined, the run ended normally
C9_Witness ==
    /\ pc = "printed" /\ ~aborted
    /\ \E d \in Routers :
          /\ joinFail[d] = 1 /\ joinOk[d] = 0
          /\ \A o \in Routers \ {d} : joinOk[o] = 1 /\ startRouterReqs[o] = 1

\* C10: g_joinedCount is the number of distinct devices that joined, so
\* g_networkReady implies that every non-coordinator device has joined.
C10_CountsDistinctDevices ==
    /\ g_joinedCount = Cardinality({d \in Routers : joinOk[d] > 0})
    /\ g_networkReady => \A d \in Routers : joinOk[d] > 0

\* the step in which a failed discovery confirmation reaches some device
FailedDiscoveryConfirm ==
    /\ discPending' # discPending /\ discPending' \subseteq discPending
    /\ discOk' = discOk
\* C11: a failed network-formation confirmation aborts the run; a failed
\* discovery confirmation, a failed join confirmation, a duplicate data
\* indication and an undersized data indication never abort it.
C11_AbortPolicy ==
    [][/\ (formed # "failed" /\ formed' = "failed") => aborted'
       /\ FailedDiscoveryConfirm => aborted' = aborted
       /\ joinFail' # joinFail => aborted' = aborted
       /\ dups' # dups => aborted' = aborted
       /\ shortInd' # shortInd => aborted' = aborted]_vars

\* C12: NwkDataIndication with a packet shorter than 16 bytes returns without
\* aborting and changes neither qosMap (no entry, no field) nor
\* receivedTracker nor g_seqNo.
C12_UndersizedRejected ==
    [][shortInd' # shortInd =>
          /\ qosMap' = qosMap
          /\ receivedTracker' = receivedTracker
          /\ accepted' = accepted
          /\ g_seqNo' = g_seqNo
          /\ aborted' = aborted /\ pc' = pc]_vars
\* an undersized packet reached a destination that has no entry, after packets were sent
C12_Witness ==
    /\ shortInd >= 1
    /\ g_seqNo >= 1
    /\ DOMAIN receivedTracker = {}
    /\ \E d \in Nodes : d \notin DOMAIN qosMap

\* C13: when every request is granted, all four routers eventually join,
\* g_joinedCount reaches 4 and g_networkReady becomes true, once and for good.
C13_BootstrapLiveness ==
    /\ <>(/\ \A d \in Routers : joinOk[d] >= 1
          /\ g_joinedCount = g_totalDevices - 1
          /\ g_networkReady)
    /\ [][g_networkReady => g_networkReady']_vars
    /\ [](g_networkReady => g_joinedCount = g_totalDevices - 1)
\* the fourth join was confirmed after the first send was due
C13_Witness ==
    /\ g_networkReady
    /\ \A d \in Routers : joinOk[d] = 1
    /\ now >= FirstSendTime
    /\ dataReqs = <<>>

\* C14: TraceRoute stops within deviceCount hops for every next-hop relation,
\* one with a cycle that reaches neither the destination nor the no-route
\* address included.
C14_TraceTerminates == count - 1 <= TrDeviceCount

\* the step in which a successful discovery confirmation reaches device d
C15_OnDiscoverySuccess ==
    \A d \in Routers : discOk'[d] = discOk[d] + 1 =>
        IF Len(discArg'[1]) > 0
        THEN /\ joinReqCount' = [joinReqCount EXCEPT ![d] = @ + 1]
             /\ joinReqs' = [joinReqs EXCEPT ![d] = Append(@, discArg'[1][1])]
             /\ aborted' = aborted
        ELSE /\ joinReqCount' = joinReqCount
             /\ joinReqs' = joinReqs
             /\ aborted' = aborted
\* C15: NwkNetworkDiscoveryConfirm issues a join request only on SUCCESS with
\* a non-empty list, and then exactly one, on the confirming device, with the
\* extended PAN id of the first descriptor; on SUCCESS with an empty list it
\* reads no descriptor and issues no join request.
C15_DiscoveryConfirmHandling ==
    [][/\ C15_OnDiscoverySuccess
       /\ joinReqCount' # joinReqCount =>
             \E d \in Routers : discOk'[d] = discOk[d] + 1 /\ Len(discArg'[1]) > 0]_vars

\* a SendDataPeriod event runs: only sentPackets of its destination may change
C16_SendWrites ==
    \A e \in SendTimers : e \notin events' =>
        /\ \A nid \in (DOMAIN qosMap \cup DOMAIN qosMap') \ {e.dst} :
              /\ nid \in DOMAIN qosMap /\ nid \in DOMAIN qosMap'
              /\ qosMap'[nid] = qosMap[nid]
        /\ \/ qosMap' = qosMap
           \/ qosMap'[e.dst] = [QosAt(qosMap, e.dst) EXCEPT !.sentPackets = @ + 1]
        /\ receivedTracker' = receivedTracker
        /\ g_joinedCount' = g_joinedCount /\ g_networkReady' = g_networkReady
\* a data indication is delivered: sentPackets and g_seqNo stay as they are
C16_IndicationWrites ==
    indCount' # indCount =>
        /\ \A nid \in Nodes :
              QosAt(qosMap', nid).sentPackets = QosAt(qosMap, nid).sentPackets
        /\ g_seqNo' = g_seqNo
        /\ g_joinedCount' = g_joinedCount /\ g_networkReady' = g_networkReady
\* C16: SendDataPeriod changes qosMap only by adding 1 to sentPackets of the
\* destination's entry and creates or changes no other entry, the source's
\* included; NwkDataIndication never changes sentPackets or g_seqNo; neither
\* changes receivedTracker (send), g_joinedCount or g_networkReady.
C16_WriterSeparation == [][C16_SendWrites /\ C16_IndicationWrites]_vars

RECURSIVE SumSent(_)
SumSent(m) ==
    IF DOMAIN m = {} THEN 0
    ELSE LET k == CHOOSE x \in DOMAIN m : TRUE
         IN m[k].sentPackets + SumSent([x \in DOMAIN m \ {k} |-> m[x]])
\* a SendDataPeriod event that runs while the network is ready
C17_ReadySend ==
    \A e \in SendTimers : (e \notin events' /\ g_networkReady) =>
        /\ g_seqNo' = g_seqNo + 1
        /\ \E nid \in DOMAIN qosMap' :
              /\ qosMap'[nid].sentPackets = QosAt(qosMap, nid).sentPackets + 1
              /\ \A o \in DOMAIN qosMap' \ {nid} :
                    qosMap'[o].sentPackets = QosAt(qosMap, o).sentPackets
        /\ Len(dataReqs') = Len(dataReqs) + 1
        /\ events' \ events =
              {Timer(e.time + HeartbeatInterval, nextUid, "SendDataPeriod", e.node, e.dst)}
\* C17: the sum of sentPackets over all qosMap entries equals g_seqNo: each
\* ready SendDataPeriod adds 1 to g_seqNo and to one sentPackets counter, and
\* schedules one NldeDataRequest and one follow-up invocation.
C17_SendAccounting ==
    /\ [](SumSent(qosMap) = g_seqNo /\ Len(dataReqs) = g_seqNo)
    /\ [][C17_ReadySend]_vars
\* every pair has sent, one of them twice
C17_Witness ==
    /\ g_seqNo = g_totalDevices
    /\ \A d \in Routers : QosAt(qosMap, d).sentPackets >= 1

RECURSIVE SumSeqs(_)
SumSeqs(sm) ==
    IF DOMAIN sm = {} THEN 0
    ELSE LET k == CHOOSE x \in DOMAIN sm : TRUE
         IN Cardinality(sm[k]) + SumSeqs([x \in DOMAIN sm \ {k} |-> sm[x]])
\* sequence numbers stored for destination d, over all sources
TrackedCount(d) == SumSeqs(SrcMapAt(receivedTracker, d))
\* what a receivedTracker set holds, it holds after the step
C18_NeverRemoved ==
    \A d \in DOMAIN receivedTracker : \A s \in DOMAIN receivedTracker[d] :
        receivedTracker[d][s] \subseteq SeqSetAt(SrcMapAt(receivedTracker', d), s)
\* C18: for every destination d, recvPackets of d equals the number of
\* sequence numbers stored in receivedTracker[d] over all sources, and no
\* sequence number is ever removed from a receivedTracker set.
C18_ReceiveAccounting ==
    /\ [](\A d \in Nodes \cup DOMAIN qosMap \cup DOMAIN receivedTracker :
            QosAt(qosMap, d).recvPackets = TrackedCount(d))
    /\ [][C18_NeverRemoved]_vars
\* one destination accepted packets of two sources, after a packet was sent to it
C18_Witness ==
    \E d \in DOMAIN receivedTracker :
        /\ Cardinality(DOMAIN receivedTracker[d]) = 2
        /\ qosMap[d].recvPackets = 2
        /\ qosMap[d].sentPackets >= 1

\* C19: each non-coordinator device gets exactly one
\* NlmeNetworkDiscoveryRequest per run, at pairwise distinct times (3, 4, 5,
\* 6 s) later than the formation request (1 s), all four with channel mask
\* 0x00007800 and scan duration 2.
C19_UniformDiscovery ==
    /\ \A d \in Routers :
          /\ Len(discReqs[d]) <= 1
          /\ Len(discReqs[d]) = 1 =>
                /\ discReqs[d][1].time \in {30, 40, 50, 60}
                /\ discReqs[d][1].time > FormationTime
                /\ discReqs[d][1].params.channelsField = 30720
                /\ discReqs[d][1].params.scanDuration = 2
          /\ \A o \in Routers \ {d} :
                (Len(discReqs[d]) = 1 /\ Len(discReqs[o]) = 1) =>
                    discReqs[d][1].time # discReqs[o][1].time
    /\ (pc = "printed") => \A d \in Routers : Len(discReqs[d]) = 1

\* C20: the delay NwkDataIndication adds to sumDelays is never negative, so
\* sumDelays of no destination ever decreases: an indication whose
\* origination time is later than the current time is not accumulated.
C20_NonNegativeDelay ==
    [][\A d \in Nodes \cup DOMAIN qosMap :
          QosAt(qosMap', d).sumDelays >= QosAt(qosMap, d).sumDelays]_vars

====
